---- MODULE Spec2Model ----
(***************************************************************************)
(* Model of examples/pipelines/providers/google_vertexai_manifold_pipeline *)
(* (class Pipeline): the valves and lifecycle hooks, pipe, the generator   *)
(* stream_response, build_conversation_history and retrieve_relevant_laws. *)
(*                                                                         *)
(* A Python str is a sequence of text fragments (single characters where   *)
(* the code looks at characters: startswith, split), so that "" is << >>   *)
(* and concatenation is \o.  Python's None is the record None.             *)
(***************************************************************************)
EXTENDS Integers, Sequences, FiniteSets, TLC

VARIABLES
    valves,      \* self.valves
    vertexInit,  \* arguments of the last vertexai.init call (None before any)
    messages,    \* the caller's message list object (pipe mutates it in place)
    call,        \* what the last pipe call did and returned
    stream,      \* the generator returned by the last streaming pipe call
    escaped,     \* an exception reached the caller of pipe or the consumer
    convIn,      \* argument of build_conversation_history (conversion runs)
    convOut      \* its outcome

vars == <<valves, vertexInit, messages, call, stream, escaped, convIn, convOut>>

None == [type |-> "None"]

\* ------------------------------------------------------------------ bounds
MaxHist == 2     \* longest message list a caller hands to pipe
MaxChunks == 2   \* longest chunk sequence the provider streams
MaxMsgs == 2     \* longest message list given to a conversion run
MaxParts == 2    \* longest multi-part content in a conversion run

SeqsUpTo(S, n) == UNION {[1..k -> S] : k \in 0..n}

\* ------------------------------------------------------------ Python str
StartsWith(s, p) == Len(s) >= Len(p) /\ SubSeq(s, 1, Len(p)) = p

FirstIndex(s, c) == IF \E i \in 1..Len(s) : s[i] = c
                    THEN CHOOSE i \in 1..Len(s) :
                            s[i] = c /\ \A j \in 1..(i-1) : s[j] # c
                    ELSE 0

\* str.split(sep) for a one-character separator: every separator cuts.
RECURSIVE Split(_, _)
Split(s, sep) ==
    LET i == FirstIndex(s, sep) IN
    IF i = 0 THEN <<s>>
    ELSE <<SubSeq(s, 1, i-1)>> \o Split(SubSeq(s, i+1, Len(s)), sep)

\* The portion of s after its first separator (s.split(sep, 1)[1]).
AfterFirst(s, sep) == SubSeq(s, FirstIndex(s, sep) + 1, Len(s))

Contains(s, frag) == \E i \in 1..Len(s) : s[i] = frag

\* ------------------------------------------------------ model identifiers
GEMINI_PREFIX == <<"g", "e", "m", "i", "n", "i", "-">>

ModelIds == { GEMINI_PREFIX \o <<"1", ".", "5">>,    \* "gemini-1.5"
              <<"g", "e", "m", "i", "n", "i">>,      \* "gemini"
              <<"g", "p", "t", "-", "4">> }          \* "gpt-4"

ModelNameValidNoDash(model_id) ==
    StartsWith(model_id, <<"g", "e", "m", "i", "n", "i">>)

\* pipe line 103: model_id.startswith("gemini-")
ModelNameValid(model_id) == StartsWith(model_id, GEMINI_PREFIX)

\* pipe line 104: f"Error: Invalid model name format: {model_id}"
InvalidModelError(model_id) ==
    <<"Error: Invalid model name format: ">> \o model_id

\* pipe line 177: f"An error occurred: {str(e)}"
ErrorOccurred(e) == <<"An error occurred: ", e>>


\* ------------------------------------------------------------- messages
Str(s) == [type |-> "str", s |-> s]        \* a content that is a str
List(items) == [type |-> "list", items |-> items]  \* a content that is a list
Msg(role, content) == [role |-> role, content |-> content]

TextPart(s) == [type |-> "text", text |-> s]           \* {"type": "text", ...}
ImagePart(u) == [type |-> "image_url", url |-> u]      \* {"type": "image_url", ...}

DATA_IMAGE == <<"d", "a", "t", "a", ":", "i", "m", "a", "g", "e">>

UriOneComma  == DATA_IMAGE \o <<";", ",", "A", "B">>   \* "data:image;,AB"
UriTwoCommas == DATA_IMAGE \o <<",", "A", ",", "B">>   \* "data:image,A,B"
UriNoComma   == DATA_IMAGE                             \* "data:image"
UriExternal  == <<"h", ":", "A", ",", "B">>            \* "h:A,B"

ImageUris == {UriOneComma, UriTwoCommas, UriNoComma, UriExternal}

\* ------------------------------------------ provider SDK value constructors
PartFromText(s) == [part |-> "text", text |-> s]       \* Part.from_text
PartFromImage(d) == [part |-> "image", data |-> d]     \* Part.from_image
PartFromUri(u) == [part |-> "uri", uri |-> u]          \* Part.from_uri
Content(role, parts) == [role |-> role, parts |-> parts]

Ok(v) == [ok |-> TRUE, value |-> v]
Raise(e) == [ok |-> FALSE, exc |-> e]

\* ------------------------------------------- build_conversation_history
\* line 200: image_url.startswith("data:image")
IsDataImage(image_url) == StartsWith(image_url, DATA_IMAGE)

\* line 201: image_url.split(",")[1]  (IndexError when there is no comma)
ImageData(image_url) ==
    LET segs == Split(image_url, ",") IN
    IF Len(segs) < 2 THEN Raise("IndexError") ELSE Ok(segs[2])

\* lines 195-204: one element of a list content; the parts it appends
ConvertPart(content) ==
    IF content.type = "text" THEN Ok(<<PartFromText(content.text)>>)
    ELSE IF content.type = "image_url" THEN
        IF IsDataImage(content.url) THEN
            LET d == ImageData(content.url) IN
            IF d.ok THEN Ok(<<PartFromImage(d.value)>>) ELSE d
        ELSE Ok(<<PartFromUri(content.url)>>)
    ELSE Ok(<< >>)

\* lines 195-204: the loop over a list content, stopped by the first raise
RECURSIVE ConvertParts(_)
ConvertParts(items) ==
    IF items = << >> THEN Ok(<< >>)
    ELSE LET h == ConvertPart(Head(items)) IN
         IF ~h.ok THEN h
         ELSE LET t == ConvertParts(Tail(items)) IN
              IF ~t.ok THEN t ELSE Ok(h.value \o t.value)

\* lines 192-206: the parts of one message
MessageParts(message) ==
    IF message.content.type = "list" THEN ConvertParts(message.content.items)
    ELSE Ok(<<PartFromText(message.content.s)>>)

RoleOfKeep(message) == IF message.role = "user" THEN "user" ELSE message.role

\* line 208
RoleOf(message) == IF message.role = "user" THEN "user" ELSE "model"

\* lines 185-211
RECURSIVE build_conversation_history(_)
build_conversation_history(msgs) ==
    IF msgs = << >> THEN Ok(<< >>)
    ELSE LET message == Head(msgs) IN
         IF message.role = "system" THEN build_conversation_history(Tail(msgs))
         ELSE LET parts == MessageParts(message) IN
              IF ~parts.ok THEN parts
              ELSE LET rest == build_conversation_history(Tail(msgs)) IN
                   IF ~rest.ok THEN rest
                   ELSE Ok(<<Content(RoleOf(message), parts.value)>> \o rest.value)

\* ------------------------------------------------- retrieve_relevant_laws
K == 3     \* default of parameter k

Law1 == [page_content |-> "c1",
         metadata |-> [law_name |-> "PIPL", law_number |-> "Act57"]]
Law2 == [page_content |-> "c2",
         metadata |-> [law_name |-> "Civil", law_number |-> "Act89"]]

\* What self.store.similarity_search(query, k) can do: raise, or return at
\* most k Document objects of the index.
StoreResults ==
    {Raise("StoreError")} \cup
    {Ok(d) : d \in {s \in SeqsUpTo({Law1, Law2}, K) :
                      \A i, j \in 1..Len(s) : s[i] = s[j] => i = j}}

\* The search returns langchain Document objects, which have the attributes
\* page_content and metadata (lines 241-242) and no __getitem__: the
\* subscript doc['metadata'] of line 239 raises TypeError.
DocSubscript(doc, key) ==
    Raise("TypeError: 'Document' object is not subscriptable")

\* lines 238-244: the loop body for one document
ResponseDoc(doc) ==
    LET logged == DocSubscript(doc, "metadata") IN
    IF ~logged.ok THEN logged
    ELSE Ok([content |-> doc.page_content, metadata |-> doc.metadata])

RECURSIVE ResponseDocs(_)
ResponseDocs(docs) ==
    IF docs = << >> THEN Ok(<< >>)
    ELSE LET h == ResponseDoc(Head(docs)) IN
         IF ~h.ok THEN h
         ELSE LET t == ResponseDocs(Tail(docs)) IN
              IF ~t.ok THEN t ELSE Ok(<<h.value>> \o t.value)

\* lines 213-246
retrieve_relevant_laws(store_result) ==
    IF ~store_result.ok THEN store_result ELSE ResponseDocs(store_result.value)


\* -------------------------------------------------------------------- pipe
\* lines 114-124: the text of the synthesized system message
RECURSIVE LawsText(_)
LawsText(relevant_docs) ==
    IF relevant_docs = << >> THEN << >>
    ELSE LET law == Head(relevant_docs) IN
         <<"law_name: ", law.metadata.law_name, "law_number: ",
           law.metadata.law_number, "content: ", law.content>>
         \o LawsText(Tail(relevant_docs))

laws_context(relevant_docs) == <<"LawsHeader">> \o LawsText(relevant_docs)

\* lines 112-127: messages.insert(0, ...) when documents were retrieved
Augment(msgs, relevant_docs) ==
    IF relevant_docs # << >>
    THEN <<Msg("system", Str(laws_context(relevant_docs)))>> \o msgs
    ELSE msgs

LastSystemMessage(msgs) ==
    LET sys == SelectSeq(msgs, LAMBDA m : m.role = "system") IN
    IF sys = << >> THEN None ELSE sys[Len(sys)].content

\* lines 129-131: next((msg["content"] for msg in messages if system), None)
SystemMessage(msgs) ==
    LET sys == SelectSeq(msgs, LAMBDA m : m.role = "system") IN
    IF sys = << >> THEN None ELSE Head(sys).content

HarmCategories == {"HATE_SPEECH", "DANGEROUS_CONTENT", "SEXUALLY_EXPLICIT",
                   "HARASSMENT"}

\* lines 154-159
BlockNoneAll == [type |-> "dict",
                 map |-> [c \in HarmCategories |-> "BLOCK_NONE"]]

\* a caller's own safety_settings entry of body
CallerSafety == [type |-> "dict",
                 map |-> [c \in {"HARASSMENT"} |-> "BLOCK_ONLY_HIGH"]]

Bodies == [stream : BOOLEAN, title : BOOLEAN,
           safety_settings : {None, CallerSafety}]

SafetySettingsFromBody(v, body) == body.safety_settings

\* lines 153-161
SafetySettings(v, body) ==
    IF v.USE_PERMISSIVE_SAFETY THEN BlockNoneAll ELSE body.safety_settings

NotCalled == [ok |-> FALSE, exc |-> "NotCalled"]

\* What model.generate_content and reading response.text can do.  A streamed
\* response is lazy: its chunks arrive while the generator runs.
ProviderResults == {[kind |-> "raise"], [kind |-> "notext"],
                    [kind |-> "text", text |-> <<"answer">>],
                    [kind |-> "stream"]}

NoStream == [status |-> "none", emitted |-> << >>, yielded |-> << >>]
OpenStream == [status |-> "open", emitted |-> << >>, yielded |-> << >>]

RetStr(s) == [type |-> "str", s |-> s]
RetGenerator == [type |-> "generator"]

\* The observations of one pipe call; << >> is "not reached", <<x>> is x.
Outcome(ret, after, retrieved, system, convInput, args, gen) ==
    [ret |-> ret, messages |-> after, retrieveCalled |-> retrieved,
     system_instruction |-> system, convInput |-> convInput,
     providerArgs |-> args, gen |-> gen]

\* lines 99-177
PipeRun(msgs, v, user_message, model_id, body, store_result, prov) ==
    IF ~ModelNameValid(model_id)
    THEN Outcome(RetStr(InvalidModelError(model_id)), msgs, FALSE,
                 << >>, << >>, << >>, NoStream)
    ELSE
    LET relevant_docs == retrieve_relevant_laws(store_result) IN
    IF ~relevant_docs.ok
    THEN Outcome(RetStr(ErrorOccurred(relevant_docs.exc)), msgs, TRUE,
                 << >>, << >>, << >>, NoStream)
    ELSE
    LET msgs2 == Augment(msgs, relevant_docs.value)
        system_message == SystemMessage(msgs2)
        contents == IF body.title
                    THEN Ok(<<Content("user", <<PartFromText(user_message)>>)>>)
                    ELSE build_conversation_history(msgs2)
        convInput == IF body.title THEN << >> ELSE <<msgs2>>
    IN
    IF ~contents.ok
    THEN Outcome(RetStr(ErrorOccurred(contents.exc)), msgs2, TRUE,
                 <<system_message>>, convInput, << >>, NoStream)
    ELSE
    LET args == [contents |-> contents.value, stream |-> body.stream,
                 system_instruction |-> system_message,
                 safety_settings |-> SafetySettings(v, body)]
    IN
    IF prov.kind = "raise"
    THEN Outcome(RetStr(ErrorOccurred("ProviderError")), msgs2, TRUE,
                 <<system_message>>, convInput, <<args>>, NoStream)
    ELSE IF body.stream
    THEN Outcome(RetGenerator, msgs2, TRUE, <<system_message>>, convInput,
                 <<args>>, OpenStream)
    ELSE IF prov.kind = "notext"
    THEN Outcome(RetStr(ErrorOccurred("ValueError")), msgs2, TRUE,
                 <<system_message>>, convInput, <<args>>, NoStream)
    ELSE Outcome(RetStr(prov.text), msgs2, TRUE, <<system_message>>,
                 convInput, <<args>>, NoStream)

\* The collaborators pipe gets to call, and what each can answer: the index
\* only for a valid model id, the provider only when retrieval and
\* conversion returned.
StoreChoices(model_id) ==
    IF ModelNameValid(model_id) THEN StoreResults ELSE {NotCalled}

ProviderChoices(msgs, model_id, body, store_result) ==
    LET dry == PipeRun(msgs, [USE_PERMISSIVE_SAFETY |-> FALSE], << >>,
                       model_id, body, store_result, [kind |-> "raise"])
    IN IF dry.providerArgs = << >> THEN {[kind |-> "raise"]}
       ELSE IF body.stream THEN {[kind |-> "raise"], [kind |-> "stream"]}
       ELSE ProviderResults \ {[kind |-> "stream"]}

\* ---------------------------------------------------------- stream_response
ChunkTexts == {<< >>, <<"a">>, <<"b">>}

ChunkHasTextAlways(text) == TRUE

\* line 181: if chunk.text
ChunkHasText(text) == text # << >>

\* lines 180-183: one iteration of the loop over the provider's chunks
StreamChunk(st, text) ==
    [st EXCEPT !.emitted = Append(@, text),
               !.yielded = IF ChunkHasText(text) THEN Append(@, text) ELSE @]

\* ------------------------------------------------------------ the pipeline
Projects == {"", "proj"}     \* values of GOOGLE_PROJECT_ID
Regions == {""}              \* values of GOOGLE_CLOUD_REGION

ValvesSet == [GOOGLE_PROJECT_ID : Projects, GOOGLE_CLOUD_REGION : Regions,
              USE_PERMISSIVE_SAFETY : BOOLEAN]

UserMessage == <<"q">>

SysA == Msg("system", Str(<<"A">>))
SysB == Msg("system", Str(<<"B">>))
UserHi == Msg("user", Str(<<"hi">>))
UserBadImage == Msg("user", List(<<ImagePart(UriNoComma)>>))

HistMsgs == {SysA, SysB, UserHi, UserBadImage}

NoCall == [made |-> FALSE, model_id |-> << >>, body |-> None,
           valves |-> None, found |-> NotCalled,
           before |-> << >>, ret |-> None, after |-> << >>,
           retrieveCalled |-> FALSE, system_instruction |-> << >>,
           convInput |-> << >>, providerArgs |-> << >>]

\* lines 43-76: __init__ (valves from the environment, flag False); the
\* caller owns one message list.
Init ==
    /\ valves \in [GOOGLE_PROJECT_ID : Projects, GOOGLE_CLOUD_REGION : Regions,
                   USE_PERMISSIVE_SAFETY : {FALSE}]
    /\ vertexInit = None
    /\ messages \in SeqsUpTo(HistMsgs, MaxHist)
    /\ call = NoCall
    /\ stream = NoStream
    /\ escaped = FALSE
    /\ convIn = << >>
    /\ convOut = None

VertexaiInit(v) == [type |-> "init", project |-> v.GOOGLE_PROJECT_ID,
                    location |-> v.GOOGLE_CLOUD_REGION]

\* lines 78-85
on_startup ==
    /\ vertexInit' = VertexaiInit(valves)
    /\ UNCHANGED <<valves, messages, call, stream, escaped, convIn, convOut>>

\* lines 87-89: a log line only
on_shutdown ==
    UNCHANGED vars

\* lines 91-97
on_valves_updated ==
    /\ vertexInit' = VertexaiInit(valves)
    /\ UNCHANGED <<valves, messages, call, stream, escaped, convIn, convOut>>

\* The host writes the fields of self.valves (class Valves, lines 36-41).
SetValves ==
    \E v \in ValvesSet :
        /\ v # valves
        /\ valves' = v
        /\ UNCHANGED <<vertexInit, messages, call, stream, escaped, convIn,
                       convOut>>

\* lines 99-177: one call pipe(user_message, model_id, messages, body)
Pipe ==
    /\ ~call.made
    /\ \E model_id \in ModelIds, body \in Bodies :
       \E store_result \in StoreChoices(model_id) :
       \E prov \in ProviderChoices(messages, model_id, body, store_result) :
        LET out == PipeRun(messages, valves, UserMessage, model_id, body,
                           store_result, prov)
        IN /\ messages' = out.messages
           /\ call' = [made |-> TRUE, model_id |-> model_id, body |-> body,
                       valves |-> valves, found |-> store_result,
                       before |-> messages, ret |-> out.ret,
                       after |-> out.messages,
                       retrieveCalled |-> out.retrieveCalled,
                       system_instruction |-> out.system_instruction,
                       convInput |-> out.convInput,
                       providerArgs |-> out.providerArgs]
           /\ stream' = out.gen
           /\ UNCHANGED <<valves, vertexInit, escaped, convIn, convOut>>

\* The caller is done with the result of the call (a generator it has not
\* drained is abandoned); the list object stays as pipe left it.
Finish ==
    /\ call.made
    /\ call' = NoCall
    /\ stream' = NoStream
    /\ escaped' = FALSE
    /\ UNCHANGED <<valves, vertexInit, messages, convIn, convOut>>

\* lines 179-183: the generator runs one step for its consumer: the provider
\* hands over its next chunk, ends the sequence, or fails.
StreamStep ==
    /\ stream.status = "open"
    /\ \/ \E text \in ChunkTexts :
             /\ Len(stream.emitted) < MaxChunks
             /\ stream' = StreamChunk(stream, text)
             /\ UNCHANGED escaped
       \/ /\ stream' = [stream EXCEPT !.status = "exhausted"]
          /\ UNCHANGED escaped
       \/ /\ stream' = [stream EXCEPT !.status = "raised"]
          /\ escaped' = TRUE
    /\ UNCHANGED <<valves, vertexInit, messages, call, convIn, convOut>>

Next ==
    \/ on_startup
    \/ on_shutdown
    \/ on_valves_updated
    \/ SetValves
    \/ Pipe
    \/ StreamStep
    \/ Finish

Spec == Init /\ [][Next]_vars


\* ------------------------------------------------------- conversion runs
\* build_conversation_history applied on its own to a message list.
ConvRoles == {"system", "user", "assistant"}

ConvContents == {Str(<<"x">>), Str(<<"y">>), List(<<TextPart(<<"x">>)>>),
                 List(<<ImagePart(UriOneComma)>>),
                 List(<<ImagePart(UriNoComma)>>)}

ConvParts == {TextPart(<<"x">>)} \cup {ImagePart(u) : u \in ImageUris}

RoleLists ==
    SeqsUpTo({Msg(r, c) : r \in ConvRoles, c \in ConvContents}, MaxMsgs)

ImageLists ==
    {<<Msg(r, List(parts))>> :
        r \in {"user", "assistant"}, parts \in SeqsUpTo(ConvParts, MaxParts)}

InitConv ==
    /\ valves = [GOOGLE_PROJECT_ID |-> "", GOOGLE_CLOUD_REGION |-> "",
                 USE_PERMISSIVE_SAFETY |-> FALSE]
    /\ vertexInit = None
    /\ messages = << >>
    /\ call = NoCall
    /\ stream = NoStream
    /\ escaped = FALSE
    /\ convIn \in RoleLists \cup ImageLists
    /\ convOut = None

\* lines 185-211: one call build_conversation_history(convIn)
Convert ==
    /\ convOut = None
    /\ convOut' = build_conversation_history(convIn)
    /\ UNCHANGED <<valves, vertexInit, messages, call, stream, escaped,
                   convIn>>

NextConv == Convert

SpecConv == InitConv /\ [][NextConv]_vars

\* ------------------------------------------------------------------ claims
CallValid == call.made /\ StartsWith(call.model_id, GEMINI_PREFIX)
Found == call.found.ok /\ call.found.value # << >>
FoundNothing == call.found.ok /\ call.found.value = << >>

SystemIndexes(msgs) == {i \in 1..Len(msgs) : msgs[i].role = "system"}

\* The content of the first system message of msgs in list order, None when
\* msgs has no system message.
FirstSystemContent(msgs) ==
    IF SystemIndexes(msgs) = {} THEN None
    ELSE msgs[CHOOSE i \in SystemIndexes(msgs) :
                 \A j \in SystemIndexes(msgs) : i <= j].content

\* C1: a call whose model id does not start with "gemini-" returns
\* "Error: Invalid model name format: <model id>", calls neither the index
\* nor the provider, and leaves the caller's message list as it was.
C1_InvalidModelRejected ==
    (call.made /\ ~StartsWith(call.model_id, GEMINI_PREFIX)) =>
        /\ call.ret = RetStr(<<"Error: Invalid model name format: ">>
                             \o call.model_id)
        /\ ~call.retrieveCalled
        /\ call.found = NotCalled
        /\ call.providerArgs = << >>
        /\ call.after = call.before
        /\ messages = call.before
        /\ stream = NoStream

C1_Witness ==
    /\ call.made
    /\ call.model_id = <<"g", "p", "t", "-", "4">>
    /\ call.before # << >>
    /\ call.ret = RetStr(<<"Error: Invalid model name format: ",
                           "g", "p", "t", "-", "4">>)

\* C2: no exception ever reaches the caller of pipe or the consumer of the
\* sequence it returned; every failure comes back as an error string.
C2_NoExceptionEscapes == ~escaped

\* C3: the sequence a streaming call returns yields exactly the provider's
\* chunks with non-empty text, in the order the provider emitted them, never
\* an empty string, and a generator is returned exactly when a streaming
\* call reached the provider and the provider call returned.
C3_StreamYieldsNonEmptyChunks ==
    /\ (stream.status # "none") =>
          /\ call.made
          /\ call.ret = RetGenerator
          /\ call.providerArgs # << >>
          /\ call.providerArgs[1].stream
          /\ stream.yielded = SelectSeq(stream.emitted, LAMBDA t : t # << >>)
          /\ \A i \in 1..Len(stream.yielded) : stream.yielded[i] # << >>
    /\ (call.made /\ call.ret = RetGenerator) => stream.status # "none"

C3_Witness ==
    /\ stream.status = "exhausted"
    /\ stream.emitted = <<<<"b">>, << >>>>
    /\ stream.yielded = <<<<"b">>>>

\* C4: when the index returns N >= 1 documents for a valid-model call, the
\* list given to conversation conversion starts with a synthesized system
\* message naming every document's law name and law number.
C4_SynthesizedMessageFirst ==
    (CallValid /\ Found /\ ~call.body.title) =>
        /\ call.convInput # << >>
        /\ LET m == call.convInput[1][1] IN
           /\ m.role = "system"
           /\ \A i \in 1..Len(call.found.value) :
                 /\ Contains(m.content.s,
                             call.found.value[i].metadata.law_name)
                 /\ Contains(m.content.s,
                             call.found.value[i].metadata.law_number)

\* C5: the system instruction is the content of the first system message of
\* the list after augmentation (unset when there is none), and when
\* documents were found and the history already had a system message it is
\* the synthesized message, not the history's.
C5_SystemInstructionIsFirstSystem ==
    /\ (call.made /\ call.system_instruction # << >>) =>
          call.system_instruction[1] = FirstSystemContent(call.after)
    /\ (CallValid /\ Found /\ SystemIndexes(call.before) # {}) =>
          /\ call.system_instruction # << >>
          /\ call.system_instruction[1] # FirstSystemContent(call.before)
          /\ call.system_instruction[1].type = "str"
          /\ Contains(call.system_instruction[1].s,
                      call.found.value[1].metadata.law_name)

\* C8: when the index returns no document for a valid-model call, the
\* caller's list is the same after the call as before it and the system
\* instruction is the content of the first system message of that list
\* (unset when it has none).
C8_NoDocumentsLeavesHistory ==
    (CallValid /\ FoundNothing) =>
        /\ call.after = call.before
        /\ messages = call.before
        /\ call.system_instruction = <<FirstSystemContent(call.before)>>
        /\ call.providerArgs # << >> =>
              call.providerArgs[1].system_instruction
                  = FirstSystemContent(call.before)

C8_Witness ==
    /\ CallValid /\ FoundNothing
    /\ call.before = <<UserHi, SysB>>
    /\ call.providerArgs # << >>
    /\ call.providerArgs[1].system_instruction = Str(<<"B">>)

\* C9: a call that reaches the provider passes "block none" for the four
\* harm categories exactly when USE_PERMISSIVE_SAFETY is set at the time of
\* the call, whatever the caller supplied, and otherwise passes the
\* caller's safety_settings (None when the caller gave none).
C9_SafetyFollowsFlag ==
    (call.made /\ call.providerArgs # << >>) =>
        LET safety == call.providerArgs[1].safety_settings IN
        IF call.valves.USE_PERMISSIVE_SAFETY
        THEN /\ safety.type = "dict"
             /\ DOMAIN safety.map = {"HATE_SPEECH", "DANGEROUS_CONTENT",
                                     "SEXUALLY_EXPLICIT", "HARASSMENT"}
             /\ \A c \in DOMAIN safety.map : safety.map[c] = "BLOCK_NONE"
        ELSE safety = call.body.safety_settings

C9_Witness ==
    /\ call.made /\ call.providerArgs # << >>
    /\ call.valves.USE_PERMISSIVE_SAFETY
    /\ vertexInit # None
    /\ call.body.safety_settings = CallerSafety
    /\ call.providerArgs[1].safety_settings # CallerSafety

\* C10: a valid-model call whose search found documents leaves the caller's
\* list one entry longer, the synthesized system message first and the
\* earlier entries after it in their order, and uses that message as the
\* system instruction.
C10_InsertedInPlace ==
    (CallValid /\ Found) =>
        /\ Len(messages) = Len(call.before) + 1
        /\ messages[1].role = "system"
        /\ Tail(messages) = call.before
        /\ call.system_instruction = <<messages[1].content>>

NonSystem(msgs) == SelectSeq(msgs, LAMBDA m : m.role # "system")

C7_ImagePartsConverted ==
    (/\ convOut # None
     /\ Len(convIn) = 1
     /\ convIn[1].role # "system"
     /\ convIn[1].content.type = "list") =>
        LET items == convIn[1].content.items IN
        /\ convOut.ok
        /\ Len(convOut.value) = 1
        /\ Len(convOut.value[1].parts) = Len(items)
        /\ \A j \in 1..Len(items) :
              items[j].type = "image_url" =>
                 IF StartsWith(items[j].url, <<"d", "a", "t", "a", ":">>)
                 THEN convOut.value[1].parts[j] =
                         [part |-> "image",
                          data |-> AfterFirst(items[j].url, ",")]
                 ELSE convOut.value[1].parts[j] =
                         [part |-> "uri", uri |-> items[j].url]

====
